---- MODULE Spec2Model ----
(***************************************************************************)
(* Model of calculate_indices (dea_bandindices.py).                        *)
(*                                                                         *)
(* A dataset is a function from band names to pixel values.  One pixel     *)
(* stands for the whole array: every operation of the code is elementwise. *)
(* A pixel value is an exact rational <<n, d>> in lowest terms with d > 0; *)
(* d = 0 encodes the IEEE results of a division by zero: <<1,0>> is +inf,  *)
(* <<-1,0>> is -inf and <<0,0>> is NaN.                                     *)
(***************************************************************************)
EXTENDS Integers, Sequences, FiniteSets, TLC

\* ------------------------------------------------------------------ bounds
\* How many times the same call is issued on the dataset.
MaxCalls == 2
\* Band values of the paired datasets of SpecPair range over 0..MaxV.
MaxV == 2
\* A call is only issued on a dataset whose values n/d have |n| <= MaxNum
\* and d <= MaxDen (this keeps the exact arithmetic inside machine integers).
MaxNum == 5000
MaxDen == 40

\* ------------------------------------------------------- exact arithmetic
Abs(n) == IF n < 0 THEN -n ELSE n

Sign(n) == IF n > 0 THEN 1 ELSE IF n < 0 THEN -1 ELSE 0

RECURSIVE GCD(_, _)
GCD(a, b) == IF b = 0 THEN a ELSE GCD(b, a % b)

Rat(n, d) ==
    IF d = 0 THEN <<Sign(n), 0>>
    ELSE LET g == GCD(Abs(n), Abs(d))
         IN  <<Sign(d) * (n \div g), Abs(d) \div g>>

NaN == <<0, 0>>

Neg(a) == <<-a[1], a[2]>>

Add(a, b) ==
    IF a[2] = 0 /\ b[2] = 0 THEN (IF a[1] = b[1] THEN a ELSE NaN)
    ELSE IF a[2] = 0 THEN a
    ELSE IF b[2] = 0 THEN b
    ELSE LET g == GCD(a[2], b[2])
             l == (a[2] \div g) * b[2]
         IN  Rat(a[1] * (l \div a[2]) + b[1] * (l \div b[2]), l)

Sub(a, b) == Add(a, Neg(b))

Mul(a, b) ==
    IF a[2] = 0 \/ b[2] = 0 THEN <<Sign(a[1]) * Sign(b[1]), 0>>
    ELSE LET g1 == GCD(Abs(a[1]), b[2])
             g2 == GCD(Abs(b[1]), a[2])
         IN  Rat((a[1] \div g1) * (b[1] \div g2), (a[2] \div g2) * (b[2] \div g1))

Inv(a) ==
    IF a[2] = 0 THEN (IF a[1] = 0 THEN NaN ELSE <<0, 1>>)
    ELSE IF a[1] = 0 THEN <<1, 0>>
    ELSE <<Sign(a[1]) * a[2], Abs(a[1])>>

Div(a, b) == Mul(a, Inv(b))

Sq(a) == Mul(a, a)

\* An integer, and a decimal literal n / d.
Num(n) == <<n, 1>>

Dec(n, d) == Rat(n, d)


\* ------------------------------------------------------------ vocabulary
\* Python's None (no model input string equals it).
None == "<None>"

\* The band names the formulas of index_dict read.
Canonical == {"red", "green", "blue", "nir", "swir1", "swir2"}

\* The keys of index_dict.
IndexNames ==
    {"NDVI", "EVI", "LAI", "SAVI", "NDMI", "NBR", "BAI", "NDBI", "NDSI", "NDWI",
     "MNDWI", "AWEI_ns", "AWEI_sh", "WI", "TCW", "TCG", "TCB", "CMR", "FMR", "IOR"}

\* The attributes of the dataset the lambda registered for `index` reads.
FormulaBands(index) ==
    CASE index \in {"NDVI", "SAVI", "BAI"} -> {"nir", "red"}
      [] index \in {"EVI", "LAI"} -> {"nir", "red", "blue"}
      [] index \in {"NDMI", "NDBI", "FMR"} -> {"nir", "swir1"}
      [] index = "NBR" -> {"nir", "swir2"}
      [] index \in {"NDSI", "MNDWI"} -> {"green", "swir1"}
      [] index = "NDWI" -> {"green", "nir"}
      [] index = "AWEI_ns" -> {"green", "swir1", "nir", "swir2"}
      [] index = "AWEI_sh" -> {"blue", "green", "nir", "swir1", "swir2"}
      [] index = "WI" -> {"green", "red", "nir", "swir1", "swir2"}
      [] index \in {"TCW", "TCG", "TCB"} -> Canonical
      [] index = "CMR" -> {"swir1", "swir2"}
      [] index = "IOR" -> {"red", "blue"}

\* (a - b) / (a + b), the shape of the normalised-difference formulas.
NormDiff(a, b) == Div(Sub(a, b), Add(a, b))

\* 2.5 (nir - red) / (nir + 6 red - 7.5 blue + 1), shared by EVI and LAI.
EviExpr(ds) ==
    Div(Mul(Dec(5, 2), Sub(ds["nir"], ds["red"])),
        Add(Sub(Add(ds["nir"], Mul(Num(6), ds["red"])),
                Mul(Dec(15, 2), ds["blue"])),
            Num(1)))

\* c1 blue + c2 green + c3 red + c4 nir + c5 swir1 + c6 swir2, the
\* coefficients given in ten-thousandths (the three tasseled-cap formulas).
TasseledCap(ds, c) ==
    Add(Add(Add(Add(Add(Mul(Dec(c[1], 10000), ds["blue"]),
                        Mul(Dec(c[2], 10000), ds["green"])),
                    Mul(Dec(c[3], 10000), ds["red"])),
                Mul(Dec(c[4], 10000), ds["nir"])),
            Mul(Dec(c[5], 10000), ds["swir1"])),
        Mul(Dec(c[6], 10000), ds["swir2"]))

\* The value of the lambda registered for `index`, applied to a dataset
\* that holds every band of FormulaBands(index).
index_dict(index, ds) ==
    CASE index = "NDVI" -> NormDiff(ds["nir"], ds["red"])
      [] index = "EVI" -> EviExpr(ds)
      [] index = "LAI" -> Sub(Mul(Dec(3618, 1000), EviExpr(ds)), Dec(118, 1000))
      [] index = "SAVI" ->
            Div(Mul(Dec(3, 2), Sub(ds["nir"], ds["red"])),
                Add(Add(ds["nir"], ds["red"]), Dec(1, 2)))
      [] index = "NDMI" -> NormDiff(ds["nir"], ds["swir1"])
      [] index = "NBR" -> NormDiff(ds["nir"], ds["swir2"])
      [] index = "BAI" ->
            Div(Num(1), Add(Sq(Sub(Dec(10, 100), ds["red"])),
                            Sq(Sub(Dec(6, 100), ds["nir"]))))
      [] index = "NDBI" -> NormDiff(ds["swir1"], ds["nir"])
      [] index = "NDSI" -> NormDiff(ds["green"], ds["swir1"])
      [] index = "NDWI" -> NormDiff(ds["green"], ds["nir"])
      [] index = "MNDWI" -> NormDiff(ds["green"], ds["swir1"])
      [] index = "AWEI_ns" ->
            Sub(Mul(Num(4), Sub(ds["green"], ds["swir1"])),
                Mul(Mul(Mul(Dec(5, 2), ds["nir"]), Dec(275, 100)), ds["swir2"]))
      [] index = "AWEI_sh" ->
            Sub(Sub(Add(ds["blue"], Mul(Dec(5, 2), ds["green"])),
                    Mul(Dec(3, 2), Add(ds["nir"], ds["swir1"]))),
                Mul(Dec(5, 2), ds["swir2"]))
      [] index = "WI" ->
            Sub(Sub(Sub(Add(Add(Dec(17204, 10000), Mul(Num(171), ds["green"])),
                            Mul(Num(3), ds["red"])),
                        Mul(Num(70), ds["nir"])),
                    Mul(Num(45), ds["swir1"])),
                Mul(Num(71), ds["swir2"]))
      [] index = "TCW" -> TasseledCap(ds, <<315, 2021, 3102, 1594, -6806, -6109>>)
      [] index = "TCG" -> TasseledCap(ds, <<-1603, -2819, -4934, 7940, -2, -1446>>)
      [] index = "TCB" -> TasseledCap(ds, <<2043, 4158, 5524, 5741, 3124, -2303>>)
      [] index = "CMR" -> Div(ds["swir1"], ds["swir2"])
      [] index = "FMR" -> Div(ds["swir1"], ds["nir"])
      [] index = "IOR" -> Div(ds["red"], ds["blue"])

\* index_dict.get(index): the registered key, or None.
IndexGet(index) == IF index \in IndexNames THEN index ELSE None

\* bandnames_dict of the 'ga_landsat_3' branch.
Landsat3Names ==
    [a \in {"nbart_nir", "nbart_red", "nbart_green", "nbart_blue",
            "nbart_swir_1", "nbart_swir_2", "nbar_red", "nbar_green",
            "nbar_blue", "nbar_nir", "nbar_swir_1", "nbar_swir_2"} |->
        CASE a \in {"nbart_nir", "nbar_nir"} -> "nir"
          [] a \in {"nbart_red", "nbar_red"} -> "red"
          [] a \in {"nbart_green", "nbar_green"} -> "green"
          [] a \in {"nbart_blue", "nbar_blue"} -> "blue"
          [] a \in {"nbart_swir_1", "nbar_swir_1"} -> "swir1"
          [] a \in {"nbart_swir_2", "nbar_swir_2"} -> "swir2"]

\* bandnames_dict of the 'ga_sentinel2_1' branch.
Sentinel2Names ==
    [a \in {"nbart_red", "nbart_green", "nbart_blue", "nbart_nir_1",
            "nbart_swir_2", "nbart_swir_3", "nbar_red", "nbar_green",
            "nbar_blue", "nbar_nir", "nbar_swir_2", "nbar_swir_3"} |->
        CASE a \in {"nbart_nir_1", "nbar_nir"} -> "nir"
          [] a \in {"nbart_red", "nbar_red"} -> "red"
          [] a \in {"nbart_green", "nbar_green"} -> "green"
          [] a \in {"nbart_blue", "nbar_blue"} -> "blue"
          [] a \in {"nbart_swir_2", "nbar_swir_2"} -> "swir1"
          [] a \in {"nbart_swir_3", "nbar_swir_3"} -> "swir2"]

ValidCollections == {"ga_landsat_2", "ga_landsat_3", "ga_sentinel2_1"}

\* An empty dict.
EmptyDict == [a \in {} |-> ""]

\* Mutant: the comprehension without its `if a in ds.variables` filter.
PresentKeysUnfiltered(bandnames_dict, ds) == bandnames_dict

\* {a: b for a, b in bandnames_dict.items() if a in ds.variables}
PresentKeys(bandnames_dict, ds) ==
    [a \in (DOMAIN bandnames_dict) \cap (DOMAIN ds) |-> bandnames_dict[a]]

\* ----------------------------------------------------------------- errors
\* Every failure is a ValueError; `kind` is the message raised, `index` and
\* `collection` are the argument values the message interpolates (None when
\* the message does not mention the argument's value).
NoError == [kind |-> "none", index |-> None, collection |-> None]

MissingIndexError == [kind |-> "MissingIndex", index |-> None, collection |-> None]

UnknownIndexError(index) ==
    [kind |-> "UnknownIndex", index |-> index, collection |-> None]

MissingCollectionError ==
    [kind |-> "MissingCollection", index |-> None, collection |-> None]

UnknownCollectionError(collection) ==
    [kind |-> "UnknownCollection", index |-> None, collection |-> collection]

\* Mutant: the except clause's message without {index}.
MissingBandErrorAnonymous(index, collection) ==
    [kind |-> "MissingBand", index |-> None, collection |-> None]

\* The message of the except clause interpolates {index} only.
MissingBandError(index, collection) ==
    [kind |-> "MissingBand", index |-> index, collection |-> None]

\* The ValueError xarray's Dataset.rename raises; the code does not catch it.
RenameError == [kind |-> "RenameConflict", index |-> None, collection |-> None]

\* ------------------------------------------------------------- operations
\* Mutant: the two tests in the other order (index_dict.get(None) is None).
CheckIndexSwapped(index, index_func) ==
    IF index_func = None THEN UnknownIndexError(index)
    ELSE IF index = None THEN MissingIndexError
    ELSE NoError

\* The if / elif after the lookup of index_func.
CheckIndex(index, index_func) ==
    IF index = None THEN MissingIndexError
    ELSE IF index_func = None THEN UnknownIndexError(index)
    ELSE NoError

\* Mutant: the final else raises the message of the `is None` branch.
CheckCollectionOneMessage(collection) ==
    IF collection \in ValidCollections THEN NoError ELSE MissingCollectionError

\* Mutant: no `is None` test, an absent collection meaning "rename nothing".
CheckCollectionNoneDefault(collection) ==
    IF collection = None \/ collection \in ValidCollections THEN NoError
    ELSE UnknownCollectionError(collection)

\* The two raising branches of the if / elif chain over `collection`.
CheckCollection(collection) ==
    IF collection = None THEN MissingCollectionError
    ELSE IF collection \in ValidCollections THEN NoError
    ELSE UnknownCollectionError(collection)

\* Mutant: 'ga_landsat_2' renamed with the 'ga_landsat_3' table.
BandsToRenameAlways(collection, ds) ==
    IF collection = "ga_sentinel2_1" THEN PresentKeys(Sentinel2Names, ds)
    ELSE PresentKeys(Landsat3Names, ds)

\* bands_to_rename, as the three non-raising branches of the chain set it.
BandsToRename(collection, ds) ==
    IF collection = "ga_landsat_3" THEN PresentKeys(Landsat3Names, ds)
    ELSE IF collection = "ga_sentinel2_1" THEN PresentKeys(Sentinel2Names, ds)
    ELSE EmptyDict

\* The name a band has after ds.rename(name_dict).
NewName(name_dict, k) == IF k \in DOMAIN name_dict THEN name_dict[k] ELSE k

\* ds.rename(name_dict): a new dataset; a ValueError when a key is no
\* variable of ds or when two variables would end with the same name.
Rename(ds, name_dict) ==
    IF \/ ~((DOMAIN name_dict) \subseteq (DOMAIN ds))
       \/ \E k1, k2 \in DOMAIN ds :
              k1 # k2 /\ NewName(name_dict, k1) = NewName(name_dict, k2)
    THEN [ok |-> FALSE, ds |-> ds]
    ELSE [ok |-> TRUE,
          ds |-> [n \in {NewName(name_dict, k) : k \in DOMAIN ds} |->
                    ds[CHOOSE k \in DOMAIN ds : NewName(name_dict, k) = n]]]

\* renamed / 1000.0: every band of the renamed dataset is divided.
Rescale(renamed) == [b \in DOMAIN renamed |-> Div(renamed[b], Num(1000))]

\* Mutant: the division by 1000 skipped for 'ga_landsat_2'.
ApplyIndexRawLandsat2(ds, index, collection, bands_to_rename) ==
    LET r == Rename(ds, bands_to_rename)
    IN  IF ~r.ok THEN [err |-> RenameError, index_array |-> << >>]
        ELSE IF ~(FormulaBands(index) \subseteq DOMAIN r.ds)
             THEN [err |-> MissingBandError(index, collection),
                   index_array |-> << >>]
        ELSE [err |-> NoError,
              index_array |->
                  index_dict(index, IF collection = "ga_landsat_2" THEN r.ds
                                    ELSE Rescale(r.ds))]

\* The try block: index_func(ds.rename(bands_to_rename) / 1000.0), with the
\* AttributeError of a missing band turned into the missing-band error.
ApplyIndex(ds, index, collection, bands_to_rename) ==
    LET r == Rename(ds, bands_to_rename)
    IN  IF ~r.ok THEN [err |-> RenameError, index_array |-> << >>]
        ELSE IF ~(FormulaBands(index) \subseteq DOMAIN r.ds)
             THEN [err |-> MissingBandError(index, collection),
                   index_array |-> << >>]
        ELSE [err |-> NoError, index_array |-> index_dict(index, Rescale(r.ds))]

\* custom_varname if custom_varname else index (None and '' are falsy).
OutputBandName(custom_varname, index) ==
    IF custom_varname # None /\ custom_varname # "" THEN custom_varname ELSE index

\* Mutant: the band attached to the renamed, rescaled dataset, as after
\* ds = ds.rename(bands_to_rename) / 1000.0.
AttachIndexToRenamed(ds, bands_to_rename, output_band_name, index_array) ==
    LET n == Rescale(Rename(ds, bands_to_rename).ds)
    IN  [b \in (DOMAIN n) \cup {output_band_name} |->
            IF b = output_band_name THEN index_array ELSE n[b]]

\* ds[output_band_name] = index_array
AttachIndex(ds, bands_to_rename, output_band_name, index_array) ==
    [b \in (DOMAIN ds) \cup {output_band_name} |->
        IF b = output_band_name THEN index_array ELSE ds[b]]

\* The whole call: the error raised (NoError on success), the dataset the
\* caller holds afterwards, and the index array computed.
calculate_indices(ds, index, collection, custom_varname) ==
    LET e1 == CheckIndex(index, IndexGet(index))
        e2 == CheckCollection(collection)
        map == BandsToRename(collection, ds)
        a == ApplyIndex(ds, index, collection, map)
    IN  IF e1 # NoError THEN [err |-> e1, ds |-> ds, index_array |-> << >>]
        ELSE IF e2 # NoError THEN [err |-> e2, ds |-> ds, index_array |-> << >>]
        ELSE IF a.err # NoError THEN [err |-> a.err, ds |-> ds, index_array |-> << >>]
        ELSE [err |-> NoError,
              ds |-> AttachIndex(ds, map, OutputBandName(custom_varname, index),
                                 a.index_array),
              index_array |-> a.index_array]

\* ------------------------------------------------------------------ inputs
\* The native names of the two naming families of the alias tables.
Nbart ==
    {"nbart_nir", "nbart_red", "nbart_green", "nbart_blue", "nbart_swir_1",
     "nbart_swir_2", "nbart_nir_1", "nbart_swir_3"}

Nbar ==
    {"nbar_nir", "nbar_red", "nbar_green", "nbar_blue", "nbar_swir_1",
     "nbar_swir_2", "nbar_swir_3"}

\* Two sample pixels (digital numbers): a vegetated one, and an all-zero one
\* on which the ratio formulas divide by zero.
Pixels ==
    {[c \in Canonical |->
        CASE c = "blue" -> 300 [] c = "green" -> 600 [] c = "red" -> 400
          [] c = "nir" -> 3000 [] c = "swir1" -> 1500 [] c = "swir2" -> 800],
     [c \in Canonical |-> 0]}

\* Which names a dataset uses for the bands it holds.
Schemes ==
    {{"canon"}, {"nbart"}, {"nbar"}, {"nbart", "nbar"}, {"canon", "nbart"}}

\* The dataset holding the canonical bands `present` of pixel `p`, each under
\* the names of `scheme` taken from the alias table `dict`.
MakeDataset(dict, scheme, present, p) ==
    LET names == {c \in present : "canon" \in scheme}
                 \cup {a \in DOMAIN dict :
                         /\ dict[a] \in present
                         /\ \/ a \in Nbart /\ "nbart" \in scheme
                            \/ a \in Nbar /\ "nbar" \in scheme}
    IN  [b \in names |-> Num(p[IF b \in Canonical THEN b ELSE dict[b]])]

\* The input datasets: all six bands, or all but one.
Datasets ==
    {MakeDataset(dict, scheme, present, p) :
        dict \in {Landsat3Names, Sentinel2Names},
        scheme \in Schemes,
        present \in {Canonical} \cup {Canonical \ {c} : c \in Canonical},
        p \in Pixels}

IndexInputs == IndexNames \cup {None, "XYZ"}

CollectionInputs == ValidCollections \cup {None, "bogus"}

VarnameInputs == {None, "", "out", "red"}

\* The datasets a call is issued on (see MaxNum, MaxDen).
InRange(d) ==
    \A b \in DOMAIN d : Abs(d[b][1]) <= MaxNum /\ d[b][2] <= MaxDen

\* ------------------------------------------------------------------- state
VARIABLES
    ds,               \* the caller's dataset
    index,            \* the arguments of the call the caller issues
    collection,
    custom_varname,
    pc,               \* where the call is
    index_func,       \* the local index_func
    bands_to_rename,  \* the local bands_to_rename
    index_array,      \* the local index_array, << >> before it is assigned
    err,              \* the error raised by the call
    applied,          \* the try block (rename, rescale, formula) was entered
    entry_ds,         \* the dataset as it was when the call was entered
    prev,             \* how the previous call on this dataset ended
    calls,            \* calls completed
    pair              \* SpecPair: one index computed on paired datasets

vars ==
    <<ds, index, collection, custom_varname, pc, index_func, bands_to_rename,
      index_array, err, applied, entry_ds, prev, calls, pair>>

args == <<index, collection, custom_varname>>

locals == <<index_func, bands_to_rename, index_array>>

NoPair == [index |-> None, v |-> << >>, done |-> FALSE,
           l2 |-> << >>, l3scaled |-> << >>, l3same |-> << >>]

Init ==
    /\ ds \in Datasets
    /\ index \in IndexInputs
    /\ collection \in CollectionInputs
    /\ custom_varname \in VarnameInputs
    /\ pc = "idle"
    /\ index_func = None
    /\ bands_to_rename = EmptyDict
    /\ index_array = << >>
    /\ err = NoError
    /\ applied = FALSE
    /\ entry_ds = ds
    /\ prev = "none"
    /\ calls = 0
    /\ pair = NoPair

\* The caller issues the call; index_func = index_dict.get(index).
Enter ==
    /\ pc = "idle"
    /\ calls < MaxCalls
    /\ InRange(ds)
    /\ pc' = "lookup"
    /\ index_func' = IndexGet(index)
    /\ bands_to_rename' = EmptyDict
    /\ index_array' = << >>
    /\ err' = NoError
    /\ applied' = FALSE
    /\ entry_ds' = ds
    /\ UNCHANGED <<ds, args, prev, calls, pair>>

\* if index is None ... elif index_func is None ...
ValidateIndex ==
    /\ pc = "lookup"
    /\ err' = CheckIndex(index, index_func)
    /\ pc' = IF err' = NoError THEN "index_ok" ELSE "raised"
    /\ UNCHANGED <<ds, args, locals, applied, entry_ds, prev, calls, pair>>

\* if collection is None ... elif ... else: raise, or set bands_to_rename.
ValidateCollection ==
    /\ pc = "index_ok"
    /\ err' = CheckCollection(collection)
    /\ IF err' = NoError
       THEN /\ bands_to_rename' = BandsToRename(collection, ds)
            /\ pc' = "collection_ok"
       ELSE /\ bands_to_rename' = bands_to_rename
            /\ pc' = "raised"
    /\ UNCHANGED <<ds, args, index_func, index_array, applied, entry_ds, prev,
                   calls, pair>>

\* try: index_array = index_func(ds.rename(bands_to_rename) / 1000.0)
Apply ==
    /\ pc = "collection_ok"
    /\ applied' = TRUE
    /\ LET a == ApplyIndex(ds, index_func, collection, bands_to_rename)
       IN  /\ err' = a.err
           /\ index_array' = a.index_array
           /\ pc' = IF a.err = NoError THEN "computed" ELSE "raised"
    /\ UNCHANGED <<ds, args, index_func, bands_to_rename, entry_ds, prev, calls,
                   pair>>

\* ds[output_band_name] = index_array; return ds
Attach ==
    /\ pc = "computed"
    /\ ds' = AttachIndex(ds, bands_to_rename,
                         OutputBandName(custom_varname, index), index_array)
    /\ pc' = "returned"
    /\ UNCHANGED <<args, locals, err, applied, entry_ds, prev, calls, pair>>

\* The call is over; the caller holds the dataset and may call again.
Finish ==
    /\ pc \in {"returned", "raised"}
    /\ prev' = pc
    /\ calls' = calls + 1
    /\ pc' = "idle"
    /\ UNCHANGED <<ds, args, locals, err, applied, entry_ds, pair>>

Next == Enter \/ ValidateIndex \/ ValidateCollection \/ Apply \/ Attach \/ Finish

Spec == Init /\ [][Next]_vars

\* The call has ended, by return or by raise.
Done == pc \in {"returned", "raised"}

\* ---------------------------------------------------- paired computations
\* A ga_landsat_2 dataset holding k * v under the canonical names.
CanonicalDataset(v, k) == [c \in Canonical |-> Num(k * v[c])]

\* A ga_landsat_3 dataset holding k * v under the nbart_* names.
NbartDataset(v, k) ==
    [a \in Nbart \cap DOMAIN Landsat3Names |-> Num(k * v[Landsat3Names[a]])]

InitPair ==
    /\ pair \in {[NoPair EXCEPT !.index = i, !.v = v] :
                    i \in IndexNames, v \in [Canonical -> 0..MaxV]}
    /\ ds = CanonicalDataset(pair.v, 1)
    /\ index = pair.index
    /\ collection = "ga_landsat_2"
    /\ custom_varname = None
    /\ pc = "idle"
    /\ index_func = None
    /\ bands_to_rename = EmptyDict
    /\ index_array = << >>
    /\ err = NoError
    /\ applied = FALSE
    /\ entry_ds = ds
    /\ prev = "none"
    /\ calls = 0

\* The index computed three times: on canonical bands holding v
\* (ga_landsat_2), on nbart_* bands holding 1000 v, and on nbart_* bands
\* holding v (both ga_landsat_3).
Compare ==
    /\ ~pair.done
    /\ pair' =
         [pair EXCEPT
            !.done = TRUE,
            !.l2 = calculate_indices(CanonicalDataset(pair.v, 1), pair.index,
                                     "ga_landsat_2", None).index_array,
            !.l3scaled = calculate_indices(NbartDataset(pair.v, 1000), pair.index,
                                           "ga_landsat_3", None).index_array,
            !.l3same = calculate_indices(NbartDataset(pair.v, 1), pair.index,
                                         "ga_landsat_3", None).index_array]
    /\ UNCHANGED <<ds, args, pc, locals, err, applied, entry_ds, prev, calls>>

NextPair == Compare

SpecPair == InitPair /\ [][NextPair]_vars

\* ------------------------------------------------------------------ claims
\* The alias table of a valid collection.
AliasTable(c) ==
    IF c = "ga_landsat_3" THEN Landsat3Names
    ELSE IF c = "ga_sentinel2_1" THEN Sentinel2Names
    ELSE EmptyDict

\* Dataset d holds canonical band c under its canonical name or under a
\* native alias accepted for the collection.
Holds(d, coll, c) ==
    \/ c \in DOMAIN d
    \/ \E a \in (DOMAIN AliasTable(coll)) \cap (DOMAIN d) : AliasTable(coll)[a] = c

\* The name the claims give the output band.
ClaimedName == IF custom_varname \in {None, ""} THEN index ELSE custom_varname

ValidCall == index \in IndexNames /\ collection \in ValidCollections

\* C1: a valid call on a dataset holding every band the formula needs, each
\* under its canonical name or any accepted alias (several aliases of one
\* band included), succeeds and leaves exactly the bands it found plus the
\* output band.
C1_CoveredCallSucceeds ==
    (Done /\ ValidCall
          /\ \A c \in FormulaBands(index) : Holds(entry_ds, collection, c))
    => /\ pc = "returned"
       /\ DOMAIN ds = (DOMAIN entry_ds) \cup {ClaimedName}

\* C2: with index absent the call raises the missing-index error, with an
\* unregistered index the unknown-index error, whatever the dataset, the
\* collection and custom_varname are.
C2_IndexErrors ==
    Done =>
      /\ index = None => err = MissingIndexError
      /\ (index # None /\ index \notin IndexNames) => err = UnknownIndexError(index)

C2_Witness ==
    /\ Done /\ index = "XYZ" /\ collection = None
    /\ err.kind = "UnknownIndex"

\* C3: with a registered index, an absent collection raises the
\* missing-collection error and an unrecognised one the unknown-collection
\* error, whatever bands the dataset holds.
C3_CollectionErrors ==
    (Done /\ index \in IndexNames) =>
      /\ collection = None => err = MissingCollectionError
      /\ (collection # None /\ collection \notin ValidCollections)
            => err = UnknownCollectionError(collection)

C3_Witness ==
    /\ Done /\ index = "TCW" /\ collection = "bogus"
    /\ Canonical \subseteq DOMAIN entry_ds
    /\ err.kind = "UnknownCollection"

BandAbsentAfterRenaming ==
    LET r == Rename(entry_ds, BandsToRename(collection, entry_ds))
    IN  r.ok /\ ~(FormulaBands(index) \subseteq DOMAIN r.ds)

\* C5 as stated: a band absent after renaming raises the missing-band error,
\* whose message names the requested index and the requested collection.
C5_ErrorNamesIndexAndCollection ==
    (Done /\ ValidCall /\ BandAbsentAfterRenaming)
    => (err.kind = "MissingBand" /\ err.index = index /\ err.collection = collection)

\* C5 as amended: a band absent after renaming raises the missing-band
\* error, whose message names the requested index and not the collection.
C5_ErrorNamesIndex ==
    (Done /\ ValidCall /\ BandAbsentAfterRenaming)
    => (err.kind = "MissingBand" /\ err.index = index /\ err.collection = None)

C5_Witness ==
    /\ Done /\ index = "NBR" /\ collection = "ga_sentinel2_1"
    /\ "nbart_swir_2" \in DOMAIN entry_ds /\ ~("nbart_swir_3" \in DOMAIN entry_ds)
    /\ err.kind = "MissingBand" /\ err.index = "NBR"

\* C6: a call repeated after it succeeded succeeds again, stores the new
\* value in the output band and leaves the set of band names as it was.
C6_RepeatedCallSucceeds ==
    (Done /\ prev = "returned")
    => /\ pc = "returned"
       /\ ds[ClaimedName] = index_array
       /\ DOMAIN ds = DOMAIN entry_ds

\* C7: for ga_landsat_2 nothing is renamed; the call succeeds exactly when
\* every band of the formula is present under its canonical name, and fails
\* with the missing-band error otherwise.
C7_Landsat2NeedsCanonical ==
    (Done /\ index \in IndexNames /\ collection = "ga_landsat_2")
    => /\ bands_to_rename = EmptyDict
       /\ (pc = "returned") <=> (FormulaBands(index) \subseteq DOMAIN entry_ds)
       /\ (pc = "raised") => (err.kind = "MissingBand")

C7_Witness ==
    /\ Done /\ index = "NDVI" /\ collection = "ga_landsat_2"
    /\ "nbart_red" \in DOMAIN entry_ds /\ "nbart_nir" \in DOMAIN entry_ds
    /\ ~("red" \in DOMAIN entry_ds)
    /\ err.kind = "MissingBand"

\* C8: for ga_landsat_3 the mapping applied has only keys that are bands of
\* the dataset, and a dataset of nbar_* names only that covers the bands of
\* the formula succeeds.
C8_NbarOnlySucceeds ==
    /\ (DOMAIN bands_to_rename) \subseteq (DOMAIN entry_ds)
    /\ (Done /\ index \in IndexNames /\ collection = "ga_landsat_3"
             /\ (DOMAIN entry_ds) \subseteq Nbar
             /\ FormulaBands(index) \subseteq
                  {Landsat3Names[a] : a \in (DOMAIN entry_ds) \cap (DOMAIN Landsat3Names)})
       => pc = "returned"

C8_Witness ==
    /\ pc = "returned" /\ index = "TCB" /\ collection = "ga_landsat_3"
    /\ (DOMAIN entry_ds) \subseteq Nbar
    /\ DOMAIN bands_to_rename = DOMAIN entry_ds

\* C9: a validation error is raised before the try block is entered, and the
\* missing-band error only inside it, after both arguments were accepted.
C9_ValidationFirst ==
    /\ err.kind \in {"MissingIndex", "UnknownIndex", "MissingCollection",
                     "UnknownCollection"}
          => (~applied /\ index_array = << >>)
    /\ err.kind = "MissingBand" => (applied /\ ValidCall)
    /\ (Done /\ ~ValidCall) => err.kind # "MissingBand"

C9_Witness ==
    /\ Done /\ index = "NDVI" /\ collection = None
    /\ ~("nir" \in DOMAIN entry_ds) /\ ~("nbart_nir" \in DOMAIN entry_ds)
    /\ err.kind = "MissingCollection" /\ ~applied

\* C10: a successful call changes the caller's dataset in the output band
\* only, every other band keeping its name and value; a failed call changes
\* nothing.
C10_OnlyOutputBandChanges ==
    Done =>
      /\ pc = "returned" =>
            /\ DOMAIN ds = (DOMAIN entry_ds) \cup {ClaimedName}
            /\ \A b \in (DOMAIN entry_ds) \ {ClaimedName} : ds[b] = entry_ds[b]
      /\ pc = "raised" => ds = entry_ds

C10_Witness ==
    /\ pc = "returned" /\ collection = "ga_landsat_3" /\ ClaimedName = "out"
    /\ bands_to_rename # EmptyDict
    /\ "nbart_red" \in DOMAIN ds /\ ds["nbart_red"] = Num(400)
    /\ ~("red" \in DOMAIN ds)

====
